---- MODULE Spec2Model ----
(***************************************************************************)
(* Identity reconciliation service: the contacts table (database.ts) and   *)
(* ContactService.identify / buildConsolidatedContact (contactService.ts). *)
(* Every statement sent to the store is one atomic step; an invocation of  *)
(* identify is the sequence of its statements, each awaited in turn.       *)
(***************************************************************************)
EXTENDS Integers, Sequences, FiniteSets, TLC

\* ---------------------------------------------------------------- bounds
MaxContacts == 3        \* rows the table may hold
NumEmails   == 2        \* distinct email values 1..NumEmails
NumPhones   == 1        \* distinct phone values 1..NumPhones
MaxTime     == 1        \* last value of the store clock NOW(), in milliseconds
MaxCalls    == 4        \* invocations that interleaving callers make in all

Workers == {"w1", "w2"}

NULL    == 0
EMPTY   == 0 - 1        \* the empty string ''
Emails  == 1..NumEmails
Phones  == 1..NumPhones

VARIABLES
    contacts,           \* the contacts table: row i has id i (SERIAL)
    now,                \* the store clock, NOW()
    pc,                 \* per worker: the statement it awaits next
    request,            \* per worker: { email, phoneNumber }
    uniquePrimaryIds,   \* per worker: Array.from(allPrimaryIds)
    allPrimaries,       \* per worker: group.find(primary) of each group read
    oldestPrimary,      \* per worker: primaryId / oldestPrimary.id
    otherPrimaries,     \* per worker: absorbed primaries still to rewrite
    allLinkedContacts,  \* per worker: the materialized cluster
    result,             \* per worker: the ConsolidatedContact returned
    before,             \* per worker: the table when the invocation began
    solo,               \* per worker: no other invocation ran meanwhile
    previous,           \* request and result of the invocation that ran last
    calls               \* invocations made so far by interleaving callers

locals == <<request, uniquePrimaryIds, allPrimaries, oldestPrimary,
            otherPrimaries, allLinkedContacts, result>>
vars   == <<contacts, now, pc, locals, before, solo, previous, calls>>

\* ------------------------------------------------------------ the Contact
NoContact == [id |-> NULL, phoneNumber |-> NULL, email |-> NULL,
              linkedId |-> NULL, linkPrecedence |-> "none",
              createdAt |-> 0, updatedAt |-> 0, deletedAt |-> NULL]
Unread    == [NoContact EXCEPT !.linkPrecedence = "unread"]

NoRequest == [email |-> NULL, phoneNumber |-> NULL]
NoResult  == [primaryContatctId |-> NULL, emails |-> <<>>,
              phoneNumbers |-> <<>>, secondaryContactIds |-> <<>>]

\* JavaScript truthiness of an optional string or id
Truthy(v) == v \notin {NULL, EMPTY}

\* mutant: the value passed on as it came
orNullKeep(v) == v

\* email || null, phoneNumber || null
orNull(v) == IF Truthy(v) THEN v ELSE NULL

\* createdAt.getTime(): the milliseconds of the Date read from created_at
getTime(c) == c.createdAt

Range(s) == {s[i] : i \in 1..Len(s)}

\* Array.prototype.sort: the stable sort of s under the strict order Less
StableSort(s, Less(_, _)) ==
    LET n == Len(s)
        Rank(i) == Cardinality({j \in 1..n :
                        \/ Less(s[j], s[i])
                        \/ ~Less(s[i], s[j]) /\ ~Less(s[j], s[i]) /\ j < i})
    IN  [k \in 1..n |-> s[CHOOSE i \in 1..n : Rank(i) = k - 1]]

\* first-seen-wins removal of duplicates (Set insertion order, includes())
RECURSIVE Dedup(_)
Dedup(s) ==
    IF s = <<>> THEN <<>>
    ELSE LET r == Dedup(SubSeq(s, 1, Len(s) - 1))
             x == s[Len(s)]
         IN  IF x \in Range(r) THEN r ELSE Append(r, x)

SelectTruthy(s) == SelectSeq(s, Truthy)

Map(s, F(_)) == [i \in 1..Len(s) |-> F(s[i])]

\* ------------------------------------------------------------- the store
\* ORDER BY created_at ASC: any order of the rows that respects created_at
OrderedByCreatedAt(tbl, ids) ==
    {s \in [1..Cardinality(ids) -> ids] :
        /\ \A i, j \in DOMAIN s : i # j => s[i] # s[j]
        /\ \A i, j \in DOMAIN s :
              i < j => tbl[s[i]].createdAt <= tbl[s[j]].createdAt}

\* mutant: the phone_number condition is left out of the WHERE clause
findCandidateIdsByEmail(tbl, email, phoneNumber) ==
    {i \in DOMAIN tbl :
        tbl[i].deletedAt = NULL /\ Truthy(email) /\ tbl[i].email = email}

findCandidateIds(tbl, email, phoneNumber) ==
    {i \in DOMAIN tbl :
        /\ tbl[i].deletedAt = NULL
        /\ \/ Truthy(email) /\ tbl[i].email = email
           \/ Truthy(phoneNumber) /\ tbl[i].phoneNumber = phoneNumber}

\* with neither value the WHERE clause ends in AND () and the query is rejected
queryRejected(email, phoneNumber) == ~Truthy(email) /\ ~Truthy(phoneNumber)

\* the result sets of findContactsByEmailOrPhone
findContactsByEmailOrPhone(tbl, email, phoneNumber) ==
    {Map(s, LAMBDA i : tbl[i]) :
        s \in OrderedByCreatedAt(tbl, findCandidateIds(tbl, email, phoneNumber))}

\* the recursive CTE contact_tree, level by level (UNION ALL)
RECURSIVE contactTree(_, _, _)
contactTree(tbl, level, depth) ==
    IF level = {} \/ depth > Len(tbl) THEN {}
    ELSE level \cup contactTree(tbl,
            {i \in DOMAIN tbl : tbl[i].deletedAt = NULL /\ tbl[i].linkedId \in level},
            depth + 1)

RECURSIVE treeLevel(_, _, _)
treeLevel(tbl, level, depth) ==
    IF depth = 0 THEN level
    ELSE treeLevel(tbl,
            {i \in DOMAIN tbl : tbl[i].deletedAt = NULL /\ tbl[i].linkedId \in level},
            depth - 1)

baseCase(tbl, primaryId) ==
    {i \in DOMAIN tbl : i = primaryId /\ tbl[i].deletedAt = NULL}

\* the recursion never ends when a cycle of links is reachable
treeDiverges(tbl, primaryId) ==
    treeLevel(tbl, baseCase(tbl, primaryId), Len(tbl)) # {}

\* mutant: SELECT * FROM contacts in place of the tree under primaryId
getLinkedContactsOfAll(tbl, primaryId) ==
    LET ids == {i \in DOMAIN tbl : tbl[i].deletedAt = NULL}
        n   == Cardinality(ids)
        Before(i, j) == \/ tbl[i].createdAt < tbl[j].createdAt
                        \/ tbl[i].createdAt = tbl[j].createdAt /\ i < j
        Pos(i) == Cardinality({j \in ids : Before(j, i)}) + 1
    IN  [k \in 1..n |-> tbl[CHOOSE i \in ids : Pos(i) = k]]

\* SELECT * FROM contact_tree ORDER BY created_at ASC, id ASC
getLinkedContacts(tbl, primaryId) ==
    LET ids == contactTree(tbl, baseCase(tbl, primaryId), 0)
        n   == Cardinality(ids)
        Before(i, j) == \/ tbl[i].createdAt < tbl[j].createdAt
                        \/ tbl[i].createdAt = tbl[j].createdAt /\ i < j
        Pos(i) == Cardinality({j \in ids : Before(j, i)}) + 1
    IN  [k \in 1..n |-> tbl[CHOOSE i \in ids : Pos(i) = k]]

\* mutant: the link_precedence argument ignored, every row a secondary
newRowSecondary(tbl, t, email, phoneNumber, linkedId, linkPrecedence) ==
    [id |-> Len(tbl) + 1, phoneNumber |-> phoneNumber, email |-> email,
     linkedId |-> linkedId, linkPrecedence |-> "secondary",
     createdAt |-> t, updatedAt |-> t, deletedAt |-> NULL]

\* INSERT INTO contacts ... RETURNING *
newRow(tbl, t, email, phoneNumber, linkedId, linkPrecedence) ==
    [id |-> Len(tbl) + 1, phoneNumber |-> phoneNumber, email |-> email,
     linkedId |-> linkedId, linkPrecedence |-> linkPrecedence,
     createdAt |-> t, updatedAt |-> t, deletedAt |-> NULL]

createContact(tbl, t, email, phoneNumber, linkedId, linkPrecedence) ==
    Append(tbl, newRow(tbl, t, email, phoneNumber, linkedId, linkPrecedence))

\* mutant: the UPDATE also sets created_at = NOW()
updateContactToSecondaryStamped(tbl, t, contactId, linkedId) ==
    [i \in DOMAIN tbl |->
        IF i = contactId
        THEN [tbl[i] EXCEPT !.linkedId = linkedId,
                            !.linkPrecedence = "secondary", !.updatedAt = t,
                            !.createdAt = t]
        ELSE tbl[i]]

updateContactToSecondary(tbl, t, contactId, linkedId) ==
    [i \in DOMAIN tbl |->
        IF i = contactId
        THEN [tbl[i] EXCEPT !.linkedId = linkedId,
                            !.linkPrecedence = "secondary", !.updatedAt = t]
        ELSE tbl[i]]

\* mutant: WHERE id = $2 in place of WHERE linked_id = $2
updateLinkedContactsPrimaryById(tbl, t, oldPrimaryId, newPrimaryId) ==
    [i \in DOMAIN tbl |->
        IF i = oldPrimaryId
        THEN [tbl[i] EXCEPT !.linkedId = newPrimaryId, !.updatedAt = t]
        ELSE tbl[i]]

updateLinkedContactsPrimary(tbl, t, oldPrimaryId, newPrimaryId) ==
    [i \in DOMAIN tbl |->
        IF tbl[i].linkedId = oldPrimaryId
        THEN [tbl[i] EXCEPT !.linkedId = newPrimaryId, !.updatedAt = t]
        ELSE tbl[i]]

\* ------------------------------------------------- the consolidated view
isPrimary(c)   == c.linkPrecedence = "primary"
isSecondary(c) == c.linkPrecedence = "secondary"

\* mutant: the creation dates compared the wrong way round
viewLessNewestFirst(a, b) ==
    \/ isPrimary(a) /\ isSecondary(b)
    \/ ~(isSecondary(a) /\ isPrimary(b)) /\ getTime(a) > getTime(b)

\* the comparator of buildConsolidatedContact, as a strict order
viewLess(a, b) ==
    \/ isPrimary(a) /\ isSecondary(b)
    \/ ~(isSecondary(a) /\ isPrimary(b)) /\ getTime(a) < getTime(b)

\* contacts.find(c => c.linkPrecedence === 'primary')
findPrimary(s) ==
    IF \E i \in 1..Len(s) : isPrimary(s[i])
    THEN s[CHOOSE i \in 1..Len(s) :
                isPrimary(s[i]) /\ \A j \in 1..(i - 1) : ~isPrimary(s[j])]
    ELSE NoContact

\* buildConsolidatedContact throws when no contact is primary
buildThrows(cs) == findPrimary(cs) = NoContact

buildConsolidatedContact(cs) ==
    LET sortedContacts    == StableSort(cs, viewLess)
        primaryContact    == findPrimary(sortedContacts)
        secondaryContacts == SelectSeq(sortedContacts, isSecondary)
    IN  [primaryContatctId   |-> primaryContact.id,
         emails              |-> Dedup(SelectTruthy(
                                    <<primaryContact.email>> \o
                                    Map(secondaryContacts, LAMBDA c : c.email))),
         phoneNumbers        |-> Dedup(SelectTruthy(
                                    <<primaryContact.phoneNumber>> \o
                                    Map(secondaryContacts, LAMBDA c : c.phoneNumber))),
         secondaryContactIds |-> Map(secondaryContacts, LAMBDA c : c.id)]

\* ------------------------------------------------------------ identify
\* requests that pass validateIdentifyRequest: an email or a phone is given
Requests ==
    {r \in [email : {NULL} \cup Emails, phoneNumber : {NULL} \cup Phones] :
        Truthy(r.email) \/ Truthy(r.phoneNumber)}

Free      == {"idle", "done", "failed"}
Active(w) == pc[w] \notin Free

\* the values NOW() may take in the next statement
Clock == {t \in {now, now + 1} : t <= MaxTime}

\* Array.from(allPrimaryIds): matched primaries first, then the links of
\* the matched secondaries, each id once, in insertion order
collectPrimaryIds(existingContacts) ==
    LET primaryContacts   == SelectSeq(existingContacts, isPrimary)
        secondaryContacts == SelectSeq(existingContacts, isSecondary)
    IN  Dedup(Map(primaryContacts, LAMBDA c : c.id) \o
              SelectTruthy(Map(secondaryContacts, LAMBDA c : c.linkedId)))

hasNewEmail(cs, email) ==
    Truthy(email) /\ email \notin {cs[i].email : i \in 1..Len(cs)}

\* mutant: a phone counts as new whenever one is given
hasNewPhoneAlways(cs, phoneNumber) == Truthy(phoneNumber)

hasNewPhone(cs, phoneNumber) ==
    Truthy(phoneNumber) /\ phoneNumber \notin {cs[i].phoneNumber : i \in 1..Len(cs)}

\* mutant: a secondary only when both values are new
hasNewInfoBoth(cs, r) ==
    hasNewEmail(cs, r.email) /\ hasNewPhone(cs, r.phoneNumber)

hasNewInfo(cs, r) ==
    hasNewEmail(cs, r.email) \/ hasNewPhone(cs, r.phoneNumber)

\* mutant: the loop over otherPrimaries stops after the first one
afterRelinkOnce(rest) == "getLinked"

\* the loop over otherPrimaries: what follows the rewrite of one of them
afterRelink(rest) ==
    IF rest = <<>> THEN "getLinked"
    ELSE IF Head(rest) = NULL THEN "failed"
    ELSE "demote"

\* mutant: the new secondary is not added to the materialized list
pushNothing(cs, c) == cs

\* allLinkedContacts.push(newSecondary)
push(cs, c) == Append(cs, c)

\* allPrimaries.sort(by createdAt): undefined entries go last, uncompared
olderThan(a, b) ==
    \/ a # NoContact /\ b = NoContact
    \/ a # NoContact /\ b # NoContact /\ getTime(a) < getTime(b)
sortPrimaries(found) == StableSort(found, olderThan)

NoPrevious == [request |-> NoRequest, result |-> NoResult]

Init ==
    /\ contacts = <<>>
    /\ now = 0
    /\ pc = [w \in Workers |-> "idle"]
    /\ request = [w \in Workers |-> NoRequest]
    /\ uniquePrimaryIds = [w \in Workers |-> <<>>]
    /\ allPrimaries = [w \in Workers |-> <<>>]
    /\ oldestPrimary = [w \in Workers |-> NULL]
    /\ otherPrimaries = [w \in Workers |-> <<>>]
    /\ allLinkedContacts = [w \in Workers |-> <<>>]
    /\ result = [w \in Workers |-> NoResult]
    /\ before = [w \in Workers |-> <<>>]
    /\ solo = [w \in Workers |-> FALSE]
    /\ previous = NoPrevious
    /\ calls = 0

\* what a worker holds of an invocation that has returned is dropped when
\* the next invocation arrives
Kept(f, w, init, mine) ==
    [v \in Workers |-> IF v = w THEN mine
                       ELSE IF Active(v) THEN f[v] ELSE init]

\* POST /identify reaches identify(request): await findContactsByEmailOrPhone,
\* then the branch on what it returned; prev is what is remembered of the
\* invocation this worker ran before
Identify(w, r, prev) ==
    /\ pc[w] \in Free
    /\ request' = Kept(request, w, NoRequest, r)
    /\ before' = Kept(before, w, <<>>, contacts)
    /\ solo' = [v \in Workers |-> v = w /\ \A u \in Workers \ {w} : ~Active(u)]
    /\ previous' = prev
    /\ \E existingContacts \in findContactsByEmailOrPhone(contacts, r.email, r.phoneNumber) :
         LET ids == collectPrimaryIds(existingContacts)
             n   == Len(existingContacts)
         IN  /\ pc' = Kept(pc, w, "idle",
                    IF queryRejected(r.email, r.phoneNumber) THEN "failed"
                    ELSE IF n = 0 THEN "createPrimary"
                    ELSE IF Len(ids) = 1 THEN "getLinked"
                    ELSE IF Len(ids) > 1 THEN "readGroup"
                    ELSE "failed")
             /\ uniquePrimaryIds' = Kept(uniquePrimaryIds, w, <<>>,
                    IF n > 0 /\ Len(ids) > 1 THEN ids ELSE <<>>)
             /\ oldestPrimary' = Kept(oldestPrimary, w, NULL,
                    IF n > 0 /\ Len(ids) = 1 THEN ids[1] ELSE NULL)
             /\ allPrimaries' = Kept(allPrimaries, w, <<>>,
                    IF n > 0 /\ Len(ids) > 1
                    THEN [i \in 1..Len(ids) |-> Unread] ELSE <<>>)
    /\ otherPrimaries' = Kept(otherPrimaries, w, <<>>, <<>>)
    /\ allLinkedContacts' = Kept(allLinkedContacts, w, <<>>, <<>>)
    /\ result' = Kept(result, w, NoResult, NoResult)
    /\ UNCHANGED <<contacts, now>>

\* the invocations of one worker, one after the other
Find(w, r) ==
    /\ Identify(w, r, IF pc[w] = "done"
                      THEN [request |-> request[w], result |-> result[w]]
                      ELSE NoPrevious)
    /\ UNCHANGED calls

\* an invocation among those of other callers; callers are interchangeable,
\* so the second worker takes an invocation only while the first is busy
FindConcurrently(w, r) ==
    /\ calls < MaxCalls
    /\ w = "w1" \/ Active("w1")
    /\ calls' = calls + 1
    /\ Identify(w, r, NoPrevious)

\* no candidate: await createContact(email, phone) as a new primary
CreatePrimary(w) ==
    /\ pc[w] = "createPrimary"
    /\ Len(contacts) < MaxContacts
    /\ \E t \in Clock :
         /\ now' = t
         /\ contacts' = createContact(contacts, t, orNull(request[w].email),
                            orNull(request[w].phoneNumber), NULL, "primary")
    /\ allLinkedContacts' = [allLinkedContacts EXCEPT ![w] =
                                <<contacts'[Len(contacts')]>>]
    /\ result' = [result EXCEPT ![w] =
                    buildConsolidatedContact(allLinkedContacts'[w])]
    /\ pc' = [pc EXCEPT ![w] = "done"]
    /\ UNCHANGED <<request, uniquePrimaryIds, allPrimaries, oldestPrimary,
                   otherPrimaries, before, solo, previous, calls>>

\* Promise.all(uniquePrimaryIds.map(getLinkedContacts)): one of the reads;
\* after the last one, the sort that picks oldestPrimary and otherPrimaries
ReadGroup(w) ==
    /\ pc[w] = "readGroup"
    /\ \E i \in 1..Len(allPrimaries[w]) :
         /\ allPrimaries[w][i] = Unread
         /\ IF treeDiverges(contacts, uniquePrimaryIds[w][i])
            THEN /\ pc' = [pc EXCEPT ![w] = "hung"]
                 /\ UNCHANGED <<uniquePrimaryIds, allPrimaries, oldestPrimary,
                                otherPrimaries>>
            ELSE LET group  == getLinkedContacts(contacts, uniquePrimaryIds[w][i])
                     found  == [allPrimaries[w] EXCEPT ![i] = findPrimary(group)]
                     sorted == sortPrimaries(found)
                 IN  IF \E j \in 1..Len(found) : found[j] = Unread
                     THEN /\ allPrimaries' = [allPrimaries EXCEPT ![w] = found]
                          /\ UNCHANGED <<pc, uniquePrimaryIds, oldestPrimary,
                                         otherPrimaries>>
                     ELSE /\ allPrimaries' = [allPrimaries EXCEPT ![w] = <<>>]
                          /\ uniquePrimaryIds' = [uniquePrimaryIds EXCEPT ![w] = <<>>]
                          /\ oldestPrimary' = [oldestPrimary EXCEPT ![w] = sorted[1].id]
                          /\ otherPrimaries' = [otherPrimaries EXCEPT ![w] =
                                Map(Tail(sorted), LAMBDA c : c.id)]
                          /\ pc' = [pc EXCEPT ![w] =
                                IF sorted[2] = NoContact THEN "failed" ELSE "demote"]
    /\ UNCHANGED <<contacts, now, request, allLinkedContacts, result, before,
                   solo, previous, calls>>

\* await updateContactToSecondary(primary.id, oldestPrimary.id)
Demote(w) ==
    /\ pc[w] = "demote"
    /\ \E t \in Clock :
         /\ now' = t
         /\ contacts' = updateContactToSecondary(contacts, t,
                            Head(otherPrimaries[w]), oldestPrimary[w])
    /\ pc' = [pc EXCEPT ![w] = "relink"]
    /\ UNCHANGED <<locals, before, solo, previous, calls>>

\* await updateLinkedContactsPrimary(primary.id, oldestPrimary.id), then the
\* next absorbed primary, if any
Relink(w) ==
    /\ pc[w] = "relink"
    /\ \E t \in Clock :
         /\ now' = t
         /\ contacts' = updateLinkedContactsPrimary(contacts, t,
                            Head(otherPrimaries[w]), oldestPrimary[w])
    /\ otherPrimaries' = [otherPrimaries EXCEPT ![w] = Tail(@)]
    /\ pc' = [pc EXCEPT ![w] = afterRelink(Tail(otherPrimaries[w]))]
    /\ UNCHANGED <<request, uniquePrimaryIds, allPrimaries, oldestPrimary,
                   allLinkedContacts, result, before, solo, previous, calls>>

\* await getLinkedContacts(primaryId), the new-information check, and the
\* return when nothing is new
GetLinked(w) ==
    /\ pc[w] = "getLinked"
    /\ IF treeDiverges(contacts, oldestPrimary[w])
       THEN /\ pc' = [pc EXCEPT ![w] = "hung"]
            /\ UNCHANGED <<allLinkedContacts, result>>
       ELSE LET cs == getLinkedContacts(contacts, oldestPrimary[w])
            IN  /\ allLinkedContacts' = [allLinkedContacts EXCEPT ![w] = cs]
                /\ IF hasNewInfo(cs, request[w])
                   THEN /\ pc' = [pc EXCEPT ![w] = "createSecondary"]
                        /\ UNCHANGED result
                   ELSE IF buildThrows(cs)
                   THEN /\ pc' = [pc EXCEPT ![w] = "failed"]
                        /\ UNCHANGED result
                   ELSE /\ pc' = [pc EXCEPT ![w] = "done"]
                        /\ result' = [result EXCEPT ![w] = buildConsolidatedContact(cs)]
    /\ UNCHANGED <<contacts, now, request, uniquePrimaryIds, allPrimaries,
                   oldestPrimary, otherPrimaries, before, solo, previous, calls>>

\* new information: await createContact(email, phone, primaryId, 'secondary'),
\* push it and return the view
CreateSecondary(w) ==
    /\ pc[w] = "createSecondary"
    /\ Len(contacts) < MaxContacts
    /\ \E t \in Clock :
         /\ now' = t
         /\ contacts' = createContact(contacts, t, orNull(request[w].email),
                            orNull(request[w].phoneNumber), oldestPrimary[w],
                            "secondary")
    /\ LET cs == push(allLinkedContacts[w], contacts'[Len(contacts')])
       IN  /\ allLinkedContacts' = [allLinkedContacts EXCEPT ![w] = cs]
           /\ IF buildThrows(cs)
              THEN /\ pc' = [pc EXCEPT ![w] = "failed"]
                   /\ UNCHANGED result
              ELSE /\ pc' = [pc EXCEPT ![w] = "done"]
                   /\ result' = [result EXCEPT ![w] = buildConsolidatedContact(cs)]
    /\ UNCHANGED <<request, uniquePrimaryIds, allPrimaries, oldestPrimary,
                   otherPrimaries, before, solo, previous, calls>>

\* a statement after the first fails (store unavailable): the await rejects
\* and identify throws
StoreFails(w) ==
    /\ pc[w] \in {"createPrimary", "readGroup", "demote", "relink",
                  "getLinked", "createSecondary"}
    /\ pc' = [pc EXCEPT ![w] = "failed"]
    /\ UNCHANGED <<contacts, now, locals, before, solo, previous, calls>>

\* the candidate lookup itself fails
FindFails(w, r) ==
    /\ pc[w] \in Free
    /\ pc' = [pc EXCEPT ![w] = "failed"]
    /\ request' = [request EXCEPT ![w] = r]
    /\ before' = [before EXCEPT ![w] = contacts]
    /\ solo' = [v \in Workers |-> v = w /\ \A u \in Workers \ {w} : ~Active(u)]
    /\ previous' = NoPrevious
    /\ uniquePrimaryIds' = [uniquePrimaryIds EXCEPT ![w] = <<>>]
    /\ allPrimaries' = [allPrimaries EXCEPT ![w] = <<>>]
    /\ oldestPrimary' = [oldestPrimary EXCEPT ![w] = NULL]
    /\ otherPrimaries' = [otherPrimaries EXCEPT ![w] = <<>>]
    /\ allLinkedContacts' = [allLinkedContacts EXCEPT ![w] = <<>>]
    /\ result' = [result EXCEPT ![w] = NoResult]
    /\ UNCHANGED <<contacts, now, calls>>

Rest(w) ==
    \/ CreatePrimary(w)
    \/ ReadGroup(w)
    \/ Demote(w)
    \/ Relink(w)
    \/ GetLinked(w)
    \/ CreateSecondary(w)

\* one worker handles one invocation after the other, each run to completion
Next ==
    \/ \E r \in Requests : Find("w1", r)
    \/ Rest("w1")

Spec == Init /\ [][Next]_vars

\* the table left by two identify calls for email 1 that ran at the same time
\* on an empty table, each finding no candidate
RacedStore ==
    createContact(createContact(<<>>, 0, 1, NULL, NULL, "primary"),
                  0, 1, NULL, NULL, "primary")

RacedInit ==
    /\ contacts \in {<<>>, RacedStore}
    /\ now = 0
    /\ pc = [w \in Workers |-> "idle"]
    /\ request = [w \in Workers |-> NoRequest]
    /\ uniquePrimaryIds = [w \in Workers |-> <<>>]
    /\ allPrimaries = [w \in Workers |-> <<>>]
    /\ oldestPrimary = [w \in Workers |-> NULL]
    /\ otherPrimaries = [w \in Workers |-> <<>>]
    /\ allLinkedContacts = [w \in Workers |-> <<>>]
    /\ result = [w \in Workers |-> NoResult]
    /\ before = [w \in Workers |-> <<>>]
    /\ solo = [w \in Workers |-> FALSE]
    /\ previous = NoPrevious
    /\ calls = 0

\* one invocation at a time, on a table that earlier callers may have raced on
RacedSpec == RacedInit /\ [][Next]_vars

\* one invocation at a time; any statement may fail
FaultNext ==
    \/ \E r \in Requests : Find("w1", r)
    \/ Rest("w1")
    \/ \E r \in Requests : FindFails("w1", r)
    \/ StoreFails("w1")

FaultSpec == Init /\ [][FaultNext]_vars

\* identify called directly: the request has not passed validateIdentifyRequest
DirectRequests ==
    [email : {NULL, EMPTY} \cup Emails, phoneNumber : {NULL, EMPTY} \cup Phones]

DirectNext ==
    \/ \E r \in DirectRequests : Find("w1", r)
    \/ Rest("w1")

DirectSpec == Init /\ [][DirectNext]_vars

\* invocations of different callers interleave statement by statement
ConcNext ==
    \E w \in Workers :
        \/ \E r \in Requests : FindConcurrently(w, r)
        \/ Rest(w)

ConcSpec == Init /\ [][ConcNext]_vars

\* ================================================================ claims
Primaries(tbl) == {i \in DOMAIN tbl : tbl[i].linkPrecedence = "primary"}

\* a cluster: a primary and every contact whose link is that primary
Cluster(tbl, p) == {i \in DOMAIN tbl : i = p \/ tbl[i].linkedId = p}

FlatStar(tbl) ==
    \A i \in DOMAIN tbl :
        \/ tbl[i].linkPrecedence = "primary" /\ tbl[i].linkedId = NULL
        \/ /\ tbl[i].linkPrecedence = "secondary"
           /\ tbl[i].linkedId \in Primaries(tbl)

OneClusterEach(tbl) ==
    \A i \in DOMAIN tbl :
        Cardinality({p \in Primaries(tbl) : i \in Cluster(tbl, p)}) = 1

Quiescent == \A w \in Workers : pc[w] \in Free

\* the primaries that own the candidates of worker w's request, in the table
\* the invocation started on
OwnerIn(tbl, i) ==
    IF tbl[i].linkPrecedence = "primary" THEN i ELSE tbl[i].linkedId
Touched(w) ==
    {OwnerIn(before[w], i) :
        i \in findCandidateIds(before[w], request[w].email, request[w].phoneNumber)}
TouchedMembers(w) ==
    UNION {Cluster(before[w], p) : p \in Touched(w)}

EmailsOf(tbl, ids) == {tbl[i].email : i \in ids} \ {NULL}
PhonesOf(tbl, ids) == {tbl[i].phoneNumber : i \in ids} \ {NULL}

\* worker w has returned a view, ran alone, and nothing ran since
Returned(w) == pc[w] = "done" /\ solo[w]

\* ---------------------------------------------------------------- C1
\* C1: from an empty table, after any sequence of identify invocations run
\* one at a time, every contact is a primary without link or a secondary
\* whose link is a current primary, so each contact is in exactly one
\* cluster and each cluster has exactly one primary.
C1_FlatStar ==
    Quiescent => FlatStar(contacts) /\ OneClusterEach(contacts)

\* a merge has completed that relinked a child of the absorbed primary
C1_Witness ==
    /\ Returned("w1")
    /\ Cardinality(Touched("w1")) = 2
    /\ \E i \in DOMAIN before["w1"] :
          /\ before["w1"][i].linkedId # NULL
          /\ contacts[i].linkedId # before["w1"][i].linkedId
    /\ FlatStar(contacts)

\* ---------------------------------------------------------------- C2
EarlierOrSame(tbl, a, b) ==
    \/ tbl[a].createdAt < tbl[b].createdAt
    \/ tbl[a].createdAt = tbl[b].createdAt /\ a <= b

\* C2: after every completed identify the primary of each cluster is the
\* member that is smallest in (createdAt, id) order.
C2_OldestIsPrimary ==
    Quiescent =>
        \A p \in Primaries(contacts) : \A i \in Cluster(contacts, p) :
            EarlierOrSame(contacts, p, i)

\* ---------------------------------------------------------------- C3
\* every value the request carries occurs in one cluster of the table the
\* invocation started on
AllKnown(w) ==
    \E p \in Primaries(before[w]) :
        /\ Truthy(request[w].email) =>
              request[w].email \in EmailsOf(before[w], Cluster(before[w], p))
        /\ Truthy(request[w].phoneNumber) =>
              request[w].phoneNumber \in PhonesOf(before[w], Cluster(before[w], p))

\* C3: a request whose values all occur in one cluster writes nothing and
\* returns the view the previous identify on that cluster returned; the
\* same request twice in a row gives the same view and no new row.
C3_Idempotent ==
    \A w \in Workers :
        Returned(w) =>
            /\ AllKnown(w) =>
                  /\ contacts = before[w]
                  /\ previous.result.primaryContatctId = result[w].primaryContatctId
                        => result[w] = previous.result
            /\ previous.request = request[w] =>
                  /\ contacts = before[w]
                  /\ result[w] = previous.result

\* a request repeated that matches a secondary only
C3_Witness ==
    /\ Returned("w1")
    /\ AllKnown("w1")
    /\ previous.request = request["w1"]
    /\ findCandidateIds(before["w1"], request["w1"].email,
                        request["w1"].phoneNumber) # {}
    /\ \A i \in findCandidateIds(before["w1"], request["w1"].email,
                                 request["w1"].phoneNumber) :
          before["w1"][i].linkPrecedence = "secondary"
    /\ result["w1"] = previous.result

\* ---------------------------------------------------------------- C4
RECURSIVE SumOfSizes(_, _)
SumOfSizes(tbl, ps) ==
    IF ps = {} THEN 0
    ELSE LET p == CHOOSE q \in ps : TRUE
         IN  Cardinality(Cluster(tbl, p)) + SumOfSizes(tbl, ps \ {p})

Created(w) == (DOMAIN contacts) \ (DOMAIN before[w])

\* C4: when the candidates belong to k >= 2 clusters, afterwards all their
\* members form one cluster: every absorbed primary and every contact that
\* was linked to one is linked to the surviving primary, and the merged
\* cluster holds each original contact once, plus at most one new secondary.
C4_MergeComplete ==
    \A w \in Workers :
        Returned(w) /\ Cardinality(Touched(w)) >= 2 =>
            \E s \in Touched(w) :
                /\ contacts[s].linkPrecedence = "primary"
                /\ \A a \in Touched(w) \ {s} :
                      /\ contacts[a].linkPrecedence = "secondary"
                      /\ contacts[a].linkedId = s
                /\ \A i \in DOMAIN before[w] :
                      before[w][i].linkedId \in Touched(w)
                          => contacts[i].linkedId = s
                /\ Cluster(contacts, s) \cap DOMAIN before[w] = TouchedMembers(w)
                /\ Cardinality(Created(w)) <= 1
                /\ Created(w) \subseteq Cluster(contacts, s)
                /\ Cardinality(Cluster(contacts, s)) =
                      SumOfSizes(before[w], Touched(w)) + Cardinality(Created(w))

\* a merge of three clusters has completed
C4_Witness ==
    /\ Returned("w1")
    /\ Cardinality(Touched("w1")) = 3
    /\ Cardinality(Cluster(contacts, result["w1"].primaryContatctId)) = 3

\* ---------------------------------------------------------------- C5
\* C5: two concurrent identify calls with the same email, which matches no
\* stored contact, create exactly one contact for it.
C5_OneContactForNovelEmail ==
    \A w, v \in Workers :
        /\ w # v
        /\ pc[w] = "done" /\ pc[v] = "done"
        /\ request[w] = request[v]
        /\ Truthy(request[w].email)
        /\ findCandidateIds(before[w], request[w].email, request[w].phoneNumber) = {}
        /\ findCandidateIds(before[v], request[v].email, request[v].phoneNumber) = {}
        => Cardinality({i \in DOMAIN contacts :
                            contacts[i].email = request[w].email}) = 1

\* ---------------------------------------------------------------- C6
SameCluster(tbl, i, j) ==
    \E p \in Primaries(tbl) : {i, j} \subseteq Cluster(tbl, p)

NoSharedValues(tbl) ==
    \A i, j \in DOMAIN tbl :
        \/ Truthy(tbl[i].email) /\ tbl[i].email = tbl[j].email
        \/ Truthy(tbl[i].phoneNumber) /\ tbl[i].phoneNumber = tbl[j].phoneNumber
        => SameCluster(tbl, i, j)

Candidates(w) ==
    findCandidateIds(before[w], request[w].email, request[w].phoneNumber)

SeriallyConsistent(tbl) ==
    FlatStar(tbl) /\ OneClusterEach(tbl) /\ NoSharedValues(tbl)

\* C6: once concurrent invocations with overlapping candidate sets, started
\* on a consistent table, have all completed, the table is one a serial
\* order could have produced: flat, one primary per cluster, no value
\* shared between clusters.
C6_SerialOutcome ==
    \A w, v \in Workers :
        /\ w # v
        /\ pc[w] \in {"done", "failed"} /\ pc[v] \in {"done", "failed"}
        /\ SeriallyConsistent(before[w]) /\ SeriallyConsistent(before[v])
        /\ Candidates(w) \cap Candidates(v) # {}
        => /\ FlatStar(contacts)
           /\ OneClusterEach(contacts)
           /\ NoSharedValues(contacts)

\* ---------------------------------------------------------------- C7
\* worker w is between the statements of its merge and the table shows only
\* part of it
PartlyMerged(w) ==
    \/ /\ pc[w] = "relink"
       /\ \E i \in DOMAIN contacts :
             contacts[i].linkedId = Head(otherPrimaries[w])
    \/ /\ pc[w] = "demote"
       /\ contacts[Head(otherPrimaries[w])].linkPrecedence = "primary"
       /\ \E a \in DOMAIN before[w] :
             /\ before[w][a].linkPrecedence = "primary"
             /\ contacts[a].linkPrecedence = "secondary"
             /\ contacts[a].linkedId = oldestPrimary[w]

\* the next statement of worker v is a read of the table
MayRead(v) == pc[v] \in Free \cup {"readGroup", "getLinked"}

\* C7: the writes of one merge become visible as a unit: no other
\* invocation can read the table while only part of a merge is applied.
C7_MergeAtomic ==
    \A w, v \in Workers :
        w # v /\ PartlyMerged(w) => ~MayRead(v)

\* ---------------------------------------------------------------- C8
\* C8: when an invocation fails because a statement fails, the table is as
\* it was when the invocation started.
C8_FailureLeavesTable ==
    \A w \in Workers :
        pc[w] = "failed" /\ solo[w] => contacts = before[w]

\* ---------------------------------------------------------------- C9
\* the elements of s at the positions in keep, in order
Pick(s, keep) ==
    [k \in 1..Cardinality(keep) |->
        s[CHOOSE i \in keep : Cardinality({j \in keep : j < i}) = k - 1]]

\* the non-null values of s, each at its first occurrence
FirstSeen(s) ==
    Pick(s, {i \in 1..Len(s) : s[i] # NULL /\ \A j \in 1..(i - 1) : s[j] # s[i]})

\* the contacts in cs, as the sequence ascending in (createdAt, id)
ByCreatedAtAndId(cs) ==
    CHOOSE s \in [1..Cardinality(cs) -> cs] :
        \A i, j \in 1..Cardinality(cs) :
            i < j => \/ s[i].createdAt < s[j].createdAt
                     \/ s[i].createdAt = s[j].createdAt /\ s[i].id < s[j].id

\* the view the specification gives for a cluster with primary p
ViewOf(members, p) ==
    LET secs == ByCreatedAtAndId(members \ {p})
    IN  [primaryContatctId   |-> p.id,
         emails              |-> FirstSeen(<<p.email>> \o
                                    [i \in 1..Len(secs) |-> secs[i].email]),
         phoneNumbers        |-> FirstSeen(<<p.phoneNumber>> \o
                                    [i \in 1..Len(secs) |-> secs[i].phoneNumber]),
         secondaryContactIds |-> [i \in 1..Len(secs) |-> secs[i].id]]

\* C9: the view returned is a function of the cluster: the id of its
\* primary; the primary's email, then the secondaries' emails in
\* (createdAt, id) order, without nulls and repetitions; the phones
\* likewise; the ids of all non-primary members in (createdAt, id) order.
C9_ViewOfCluster ==
    \A w \in Workers :
        Returned(w) =>
            LET members == Range(allLinkedContacts[w])
            IN  /\ Cardinality({c \in members : isPrimary(c)}) = 1
                /\ result[w] = ViewOf(members, CHOOSE c \in members : isPrimary(c))

\* a view of a cluster whose primary is not its first row and in which a
\* value repeats
C9_Witness ==
    /\ Returned("w1")
    /\ Len(allLinkedContacts["w1"]) = 3
    /\ result["w1"].primaryContatctId > 1
    /\ Len(result["w1"].secondaryContactIds) = 2
    /\ Cardinality({i \in 1..3 : Truthy(allLinkedContacts["w1"][i].phoneNumber)})
          > Len(result["w1"].phoneNumbers)

\* --------------------------------------------------------------- C10
NewInfo(w) ==
    \/ /\ Truthy(request[w].email)
       /\ request[w].email \notin EmailsOf(before[w], TouchedMembers(w))
    \/ /\ Truthy(request[w].phoneNumber)
       /\ request[w].phoneNumber \notin PhonesOf(before[w], TouchedMembers(w))

\* C10: when the candidates resolve to a cluster, directly or after a
\* merge, and the request carries an email or a phone the cluster lacks,
\* exactly one contact is created: a secondary linked to the cluster's
\* primary, holding the request's email and phone, and present in the view.
C10_NewSecondary ==
    \A w \in Workers :
        Returned(w) /\ Touched(w) # {} /\ NewInfo(w) =>
            /\ Len(contacts) = Len(before[w]) + 1
            /\ LET c == contacts[Len(contacts)]
               IN  /\ c.linkPrecedence = "secondary"
                   /\ c.linkedId = result[w].primaryContatctId
                   /\ contacts[c.linkedId].linkPrecedence = "primary"
                   /\ c.linkedId \in Touched(w)
                   /\ c.email = request[w].email
                   /\ c.phoneNumber = request[w].phoneNumber
                   /\ c.id \in Range(result[w].secondaryContactIds)
                   /\ Truthy(c.email) => c.email \in Range(result[w].emails)
                   /\ Truthy(c.phoneNumber) =>
                         c.phoneNumber \in Range(result[w].phoneNumbers)

\* a secondary with a new phone has been created after a merge
C10_Witness ==
    /\ Returned("w1")
    /\ Cardinality(Touched("w1")) = 2
    /\ NewInfo("w1")
    /\ Len(contacts) = Len(before["w1"]) + 1
    /\ contacts[Len(contacts)].linkPrecedence = "secondary"

\* --------------------------------------------------------------- C11
\* the sequence holding v when v is given
Given(v) == IF Truthy(v) THEN <<v>> ELSE <<>>

\* C11: when no stored contact has the request's email or phone, identify
\* creates exactly one contact, a primary without link holding the given
\* email and phone, changes no other contact, and returns the view of that
\* singleton cluster.
C11_NewPrimary ==
    \A w \in Workers :
        Returned(w) /\ Candidates(w) = {} =>
            /\ Len(contacts) = Len(before[w]) + 1
            /\ \A i \in DOMAIN before[w] : contacts[i] = before[w][i]
            /\ LET c == contacts[Len(contacts)]
               IN  /\ c.linkPrecedence = "primary"
                   /\ c.linkedId = NULL
                   /\ c.email = request[w].email
                   /\ c.phoneNumber = request[w].phoneNumber
                   /\ result[w] = [primaryContatctId   |-> c.id,
                                   emails              |-> Given(request[w].email),
                                   phoneNumbers        |-> Given(request[w].phoneNumber),
                                   secondaryContactIds |-> <<>>]

\* a primary with an email and a phone has been added to a table that
\* already held a contact
C11_Witness ==
    /\ Returned("w1")
    /\ Candidates("w1") = {}
    /\ before["w1"] # <<>>
    /\ Truthy(request["w1"].email) /\ Truthy(request["w1"].phoneNumber)
    /\ Len(contacts) = Len(before["w1"]) + 1

\* --------------------------------------------------------------- C12
\* C12: after any sequence of identify invocations run one at a time, any
\* two stored contacts that share an email or a phone are in the same
\* cluster.
C12_NoSharedValues ==
    Quiescent => NoSharedValues(contacts)

\* a request joined two clusters through a value held by a secondary only
C12_Witness ==
    /\ Returned("w1")
    /\ Cardinality(Touched("w1")) = 2
    /\ \E i \in Candidates("w1") :
          /\ before["w1"][i].linkPrecedence = "secondary"
          /\ \A j \in Candidates("w1") :
                OwnerIn(before["w1"], j) = OwnerIn(before["w1"], i) =>
                    before["w1"][j].linkPrecedence = "secondary"
    /\ NoSharedValues(contacts)

\* --------------------------------------------------------------- C13
\* C13: cluster materialization terminates for every content of the table,
\* a chain of secondaries and a cycle of links included: no invocation is
\* left waiting forever for getLinkedContacts.
C13_MaterializationTerminates ==
    \A w \in Workers : pc[w] # "hung"

\* --------------------------------------------------------------- C14
\* worker w holds in allLinkedContacts what getLinkedContacts(oldestPrimary)
\* returned for the table as it is now
Materialized(w) ==
    /\ solo[w]
    /\ \/ pc[w] = "createSecondary"
       \/ pc[w] = "done" /\ Candidates(w) # {} /\ Len(contacts) = Len(before[w])

\* C14: for a primary P, materialization returns exactly P and the contacts
\* linked to P, each once, P first and then the secondaries ascending in
\* (createdAt, id).
C14_MaterializationExact ==
    \A w \in Workers :
        Materialized(w) /\ contacts[oldestPrimary[w]].linkPrecedence = "primary" =>
            LET P  == oldestPrimary[w]
                cs == allLinkedContacts[w]
            IN  /\ Len(cs) = Cardinality(Cluster(contacts, P))
                /\ Range(cs) = {contacts[i] : i \in Cluster(contacts, P)}
                /\ cs[1].id = P
                /\ \A i, j \in 2..Len(cs) :
                      i < j => EarlierOrSame(contacts, cs[i].id, cs[j].id)

\* --------------------------------------------------------------- C15
\* C15: an invocation that ends with a consistency or internal error has
\* written nothing; in particular the step at which it fails leaves the
\* table as it was.
C15_ErrorWritesNothing ==
    [][\A w \in Workers :
          pc[w] # "failed" /\ pc'[w] = "failed" => contacts' = contacts]_vars

\* --------------------------------------------------------------- C16
Absent(r) == ~Truthy(r.email) /\ ~Truthy(r.phoneNumber)

\* C16: every stored contact has a non-null email or a non-null phone; an
\* identify with neither an email nor a phone (absent or empty) fails and
\* creates no contact; an empty string is stored as null.
C16_EmailOrPhone ==
    /\ \A i \in DOMAIN contacts :
          /\ contacts[i].email # NULL \/ contacts[i].phoneNumber # NULL
          /\ contacts[i].email # EMPTY /\ contacts[i].phoneNumber # EMPTY
    /\ \A w \in Workers :
          pc[w] \in Free \ {"idle"} /\ solo[w] /\ Absent(request[w]) =>
              pc[w] = "failed" /\ contacts = before[w]

\* a request with an empty email and a phone was answered from a contact
\* stored with a null email, and the next request, with neither value, failed
C16_Witness ==
    /\ pc["w1"] = "failed" /\ Absent(request["w1"])
    /\ previous.request.email = EMPTY
    /\ Truthy(previous.request.phoneNumber)
    /\ previous.result.emails = <<>>
    /\ contacts[previous.result.primaryContatctId].email = NULL
    /\ contacts = before["w1"]

\* --------------------------------------------------------------- C17
\* C17: in every reachable state of the table, between the statements of an
\* invocation and under any interleaving, a contact has a link if and only
\* if it is secondary, and no contact is linked to itself.
C17_LinkIffSecondary ==
    \A i \in DOMAIN contacts :
        /\ contacts[i].linkedId # NULL <=> contacts[i].linkPrecedence = "secondary"
        /\ contacts[i].linkedId # i

\* --------------------------------------------------------------- C18
\* C18: across any interleaving the table only grows and only demotes: no
\* contact is removed; id, email, phone and createdAt of a contact never
\* change; deletedAt stays unset; a secondary never becomes primary again.
C18_GrowsAndDemotes ==
    [][/\ Len(contacts') >= Len(contacts)
       /\ \A i \in DOMAIN contacts :
             /\ contacts'[i].id = contacts[i].id
             /\ contacts'[i].email = contacts[i].email
             /\ contacts'[i].phoneNumber = contacts[i].phoneNumber
             /\ contacts'[i].createdAt = contacts[i].createdAt
             /\ contacts'[i].deletedAt = NULL
             /\ contacts[i].linkPrecedence = "secondary"
                   => contacts'[i].linkPrecedence = "secondary"]_vars

\* a primary has been demoted, at a later time than it was created, while
\* another invocation added a row
C18_Witness ==
    \E w \in Workers :
        /\ pc[w] = "relink"
        /\ Len(contacts) > Len(before[w])
        /\ LET a == Head(otherPrimaries[w])
           IN  /\ before[w][a].linkPrecedence = "primary"
               /\ contacts[a].linkPrecedence = "secondary"
               /\ contacts[a].updatedAt > contacts[a].createdAt

\* --------------------------------------------------------------- C19
\* the contacts of the clusters that hold neither value of w's request, in
\* the table the invocation started on
Untouched(w) == (DOMAIN before[w]) \ TouchedMembers(w)

\* C19: an invocation changes only contacts of the clusters that own one of
\* its candidates: every other contact keeps its precedence, link and
\* updatedAt, and the invocation creates at most one contact.
C19_Frame ==
    \A w \in Workers :
        solo[w] =>
            /\ \A i \in Untouched(w) :
                  /\ contacts[i].linkPrecedence = before[w][i].linkPrecedence
                  /\ contacts[i].linkedId = before[w][i].linkedId
                  /\ contacts[i].updatedAt = before[w][i].updatedAt
            /\ Len(contacts) <= Len(before[w]) + 1

\* a merge of two clusters has completed beside a third cluster
C19_Witness ==
    /\ Returned("w1")
    /\ Cardinality(Touched("w1")) = 2
    /\ Untouched("w1") # {}
    /\ contacts # before["w1"]

\* --------------------------------------------------------------- C20
\* C20: a view returned by an invocation run alone agrees with the table at
\* that moment: it holds the request's email and phone; its primary is a
\* primary of the table; emails, phoneNumbers and secondaryContactIds are
\* exactly the distinct emails, phones and non-primary ids of that primary's
\* stored cluster, the contact just created included.
C20_ViewAgreesWithStore ==
    \A w \in Workers :
        Returned(w) =>
            LET v       == result[w]
                P       == v.primaryContatctId
                members == Cluster(contacts, P)
            IN  /\ Truthy(request[w].email) =>
                      request[w].email \in Range(v.emails)
                /\ Truthy(request[w].phoneNumber) =>
                      request[w].phoneNumber \in Range(v.phoneNumbers)
                /\ P \in Primaries(contacts)
                /\ Range(v.emails) = EmailsOf(contacts, members)
                /\ Len(v.emails) = Cardinality(EmailsOf(contacts, members))
                /\ Range(v.phoneNumbers) = PhonesOf(contacts, members)
                /\ Len(v.phoneNumbers) = Cardinality(PhonesOf(contacts, members))
                /\ Range(v.secondaryContactIds) = members \ {P}
                /\ Len(v.secondaryContactIds) = Cardinality(members) - 1

\* a view that includes the secondary the invocation created, for a cluster
\* in which a value repeats
C20_Witness ==
    /\ Returned("w1")
    /\ Len(contacts) = Len(before["w1"]) + 1
    /\ contacts[Len(contacts)].linkPrecedence = "secondary"
    /\ Len(contacts) \in Range(result["w1"].secondaryContactIds)
    /\ Len(result["w1"].emails) + Len(result["w1"].phoneNumbers)
          < Cardinality({i \in Cluster(contacts, result["w1"].primaryContatctId) :
                            Truthy(contacts[i].email)})
            + Cardinality({i \in Cluster(contacts, result["w1"].primaryContatctId) :
                            Truthy(contacts[i].phoneNumber)})

TypeOK ==
    /\ Len(contacts) <= MaxContacts
    /\ now \in 0..MaxTime

====
